---- MODULE Spec2Model ----
(***************************************************************************)
(* examples/c_plugin/example.c: the plugin entry point                     *)
(*                                                                         *)
(*     int Read(int device, char* model)                                   *)
(*     {                                                                   *)
(*         srand(time(NULL));                                              *)
(*         return rand();                                                  *)
(*     }                                                                   *)
(*                                                                         *)
(* Read is modelled as steps on one shared generator: the call starts by   *)
(* evaluating time(NULL) into a temporary; srand stores the converted      *)
(* value into the generator; rand loads the generator state and then       *)
(* stores the advanced state and returns its value.  Nothing orders the    *)
(* load and the store of one caller against the steps of another: a C      *)
(* library need not make rand and srand atomic, and one that does is the   *)
(* case where the store follows the load at once.                          *)
(*                                                                         *)
(* The callers are threads of the host; between calls the host itself may  *)
(* seed and draw from the same generator.  The generator has the shape of  *)
(* the reference implementation of ISO C 7.22.2 (next = next * a + c; the  *)
(* result is the high part of next reduced to 0..RAND_MAX) at a reduced    *)
(* width.  A call runs alone when no other call is in progress between its *)
(* start and its return; the arguments, the generator state it found and   *)
(* the state it left are recorded for such calls.                          *)
(***************************************************************************)
EXTENDS Integers, FiniteSets, Sequences, TLC

(* ------------------------------- bounds -------------------------------- *)

\* number of host threads that may call Read
NumThreads == 2
\* total number of Read calls and of direct srand/rand calls of the host
MaxOps == 3
\* the wall clock runs over 0..MaxTime
MaxTime == 1
\* largest unsigned int (reduced width)
UINT_MAX == 3
\* largest value rand() returns (reduced width)
RAND_MAX == 7
\* the generator state is kept modulo GenMod (reduced width)
GenMod == 32
\* multiplier and increment of the generator (reduced width)
Mult == 5
Inc == 1
\* rand() returns the part of the state above OutDiv
OutDiv == 2
\* largest int
INT_MAX == 2147483647

Threads == 1..NumThreads
\* the arguments of the calls: read(1, "sensor-a"), read(2, "sensor-b"), ...
Devices == {1, 2}
Models == {"sensor-a", "sensor-b"}
Times == 0..MaxTime
UInts == 0..UINT_MAX
GenStates == 0..(GenMod - 1)
NoValue == -1

(* ----------------------------- the generator --------------------------- *)

\* the conversion of time_t to the unsigned int parameter of srand
ToUnsigned(t) == t % (UINT_MAX + 1)

\* srand that folds the seed into the state it finds
SrandMix(g, seed) == (g + seed) % GenMod
\* srand(seed): the generator state is replaced by the seed
Srand(g, seed) == seed % GenMod

\* rand() advancing the generator twice
RandNextTwice(g) == (((g * Mult + Inc) % GenMod) * Mult + Inc) % GenMod
\* rand(): the state after one draw
RandNext(g) == (g * Mult + Inc) % GenMod

\* rand() returning the high part of the state without reducing it
RandOutRaw(g) == g \div OutDiv
\* rand(): the value returned for the state the draw left
RandOut(g) == (g \div OutDiv) % (RAND_MAX + 1)

\* the state of the generator when the process starts: as if srand(1)
InitialGen == Srand(0, 1)

\* n-th state and value of the sequence seeded with the time value t
SeededState(t) == Srand(0, ToUnsigned(t))
FirstDraw(t) == RandOut(RandNext(SeededState(t)))
SecondDraw(t) == RandOut(RandNext(RandNext(SeededState(t))))

(* ------------------------------- the state ----------------------------- *)

VARIABLES
    gen,        \* the state of the global generator
    clock,      \* the wall clock read by time(NULL)
    pc,         \* per thread: "idle", "srand", "rand", "store"
    device,     \* per thread: the device parameter of its running call
    model,      \* per thread: the string its model parameter points to
    tval,       \* per thread: the value time(NULL) returned
    loaded,     \* per thread: the generator state rand() loaded
    before,     \* per thread: the generator state when its call started
    overlap,    \* per thread: another caller ran during its call
    nseed,      \* per thread: srand calls made by its current call
    ndraw,      \* per thread: rand calls made by its current call
    last,       \* the call that returned last, with the value it returned
    prev,       \* the call that returned before it, until the next one starts
    ops,        \* Read calls started and srand/rand calls made by the host
    hostCtx,    \* what happened to the generator since the host seeded it
    hostDraw    \* the draw the host made after a seed of its own, until the
                \* next call starts

vars == <<gen, clock, pc, device, model, tval, loaded, before, overlap,
          nseed, ndraw, last, prev, ops, hostCtx, hostDraw>>

NoCall == [dev |-> NoValue, model |-> "", t |-> NoValue, before |-> NoValue,
           result |-> NoValue, after |-> NoValue, seeds |-> 0, draws |-> 0,
           seq |-> FALSE]
\* hostCtx: the host has not seeded, or a draw of its own used the seed up
NoHost == [seed |-> NoValue, reads |-> 0, t |-> NoValue]
\* hostCtx: since the host seeded, something other than one whole Read call
\* running alone has used the generator
Mixed == [seed |-> NoValue, reads |-> 2, t |-> NoValue]
NoDraw == [seed |-> NoValue, reads |-> 0, t |-> NoValue, value |-> NoValue]

Active(th) == pc[th] # "idle"
OthersActive(th) == \E o \in Threads : o # th /\ Active(o)

Init ==
    /\ gen = InitialGen
    /\ clock = 0
    /\ pc = [th \in Threads |-> "idle"]
    /\ device = [th \in Threads |-> NoValue]
    /\ model = [th \in Threads |-> ""]
    /\ tval = [th \in Threads |-> NoValue]
    /\ loaded = [th \in Threads |-> NoValue]
    /\ before = [th \in Threads |-> NoValue]
    /\ overlap = [th \in Threads |-> FALSE]
    /\ nseed = [th \in Threads |-> 0]
    /\ ndraw = [th \in Threads |-> 0]
    /\ last = NoCall
    /\ prev = NoCall
    /\ ops = 0
    /\ hostCtx = NoHost
    /\ hostDraw = NoDraw

(* ------------------------------ Read ---------------------------------- *)

\* the step that follows time(NULL) when the seeding is left out
AfterTimeNoSeed == "rand"
\* srand(time(NULL)): the argument is evaluated, then srand is called
AfterTime == "srand"

\* the step that follows srand when the call never gets to rand
AfterSeedStuck == "srand"
\* after srand(...) the return statement calls rand()
AfterSeed == "rand"

\* the seed handed to srand when it is taken from the generator, not the clock
SeedArgGen(th) == ToUnsigned(gen)
\* the seed handed to srand when the device is mixed into it
SeedArgDevice(th) == ToUnsigned(tval[th] + device[th])
\* the seed handed to srand: the converted time value
SeedArg(th) == ToUnsigned(tval[th])

\* srand may run only while no other caller is between srand and rand
SeedGuardLocked(th) ==
    pc[th] = "srand" /\ \A o \in Threads : pc[o] \notin {"rand", "store"}
\* srand runs as soon as the caller reaches it: Read takes no lock
SeedGuard(th) == pc[th] = "srand"

\* the record of a call that returned
Returned(th, g) ==
    IF overlap[th]
    THEN [NoCall EXCEPT !.t = tval[th], !.result = RandOut(g),
                        !.seeds = nseed[th], !.draws = ndraw[th] + 1]
    ELSE [dev |-> device[th], model |-> model[th], t |-> tval[th],
          before |-> before[th], result |-> RandOut(g), after |-> g,
          seeds |-> nseed[th], draws |-> ndraw[th] + 1, seq |-> TRUE]

\* the host calls Read(d, m) on the first caller thread that is free; the
\* call starts by evaluating time(NULL)
Call(th, d, m) ==
    /\ pc[th] = "idle"
    /\ \A o \in Threads : o < th => Active(o)
    /\ ops < MaxOps
    /\ pc' = [pc EXCEPT ![th] = AfterTime]
    /\ device' = [device EXCEPT ![th] = d]
    /\ model' = [model EXCEPT ![th] = m]
    /\ tval' = [tval EXCEPT ![th] = clock]
    /\ before' = [o \in Threads |->
                    IF o = th /\ ~OthersActive(th) THEN gen ELSE NoValue]
    /\ overlap' = [o \in Threads |->
                     IF o = th THEN OthersActive(th)
                     ELSE overlap[o] \/ Active(o)]
    /\ nseed' = [nseed EXCEPT ![th] = 0]
    /\ ndraw' = [ndraw EXCEPT ![th] = 0]
    /\ ops' = ops + 1
    /\ prev' = NoCall
    /\ hostDraw' = NoDraw
    /\ UNCHANGED <<gen, clock, loaded, last, hostCtx>>

\* srand(...)
Seed(th) ==
    /\ SeedGuard(th)
    /\ gen' = Srand(gen, SeedArg(th))
    \* counted up to 2: a second srand of one call is already one too many
    /\ nseed' = [nseed EXCEPT ![th] = IF @ < 2 THEN @ + 1 ELSE @]
    /\ pc' = [pc EXCEPT ![th] = AfterSeed]
    /\ hostCtx' = IF hostCtx = NoHost THEN NoHost
                  ELSE IF hostCtx.reads = 0 /\ ~overlap[th]
                       THEN [hostCtx EXCEPT !.reads = 1, !.t = tval[th]]
                       ELSE Mixed
    /\ UNCHANGED <<clock, device, model, tval, loaded, before, overlap,
                   ndraw, last, prev, ops, hostDraw>>

\* rand(): the generator state is loaded
Load(th) ==
    /\ pc[th] = "rand"
    /\ loaded' = [loaded EXCEPT ![th] = gen]
    /\ pc' = [pc EXCEPT ![th] = "store"]
    /\ UNCHANGED <<gen, clock, device, model, tval, before, overlap, nseed,
                   ndraw, last, prev, ops, hostCtx, hostDraw>>

\* return rand(): the advanced state is stored and its value returned
Draw(th) ==
    /\ pc[th] = "store"
    /\ gen' = RandNext(loaded[th])
    /\ loaded' = [loaded EXCEPT ![th] = NoValue]
    /\ nseed' = [nseed EXCEPT ![th] = 0]
    /\ ndraw' = [ndraw EXCEPT ![th] = 0]
    /\ pc' = [pc EXCEPT ![th] = "idle"]
    /\ last' = Returned(th, gen')
    /\ prev' = IF last.seq THEN last ELSE NoCall
    /\ device' = [device EXCEPT ![th] = NoValue]
    /\ model' = [model EXCEPT ![th] = ""]
    /\ hostCtx' = IF hostCtx = NoHost THEN NoHost
                  ELSE IF hostCtx.reads = 1 /\ ~overlap[th] /\ nseed[th] = 1
                       THEN hostCtx
                       ELSE Mixed
    /\ tval' = [tval EXCEPT ![th] = NoValue]
    /\ before' = [before EXCEPT ![th] = NoValue]
    /\ overlap' = [overlap EXCEPT ![th] = FALSE]
    /\ UNCHANGED <<clock, ops, hostDraw>>

Step(th) == Seed(th) \/ Load(th) \/ Draw(th)

(* --------------------------- the environment --------------------------- *)

\* the wall clock advances
Tick ==
    /\ clock < MaxTime
    /\ clock' = clock + 1
    /\ UNCHANGED <<gen, pc, device, model, tval, loaded, before, overlap,
                   nseed, ndraw, last, prev, ops, hostCtx, hostDraw>>

\* between two calls of Read the host seeds the generator itself
HostSrand(s) ==
    /\ \A th \in Threads : ~Active(th)
    /\ ops < MaxOps
    /\ ops' = ops + 1
    /\ gen' = Srand(gen, s)
    /\ hostCtx' = [seed |-> s, reads |-> 0, t |-> NoValue]
    /\ prev' = NoCall
    /\ hostDraw' = NoDraw
    /\ UNCHANGED <<clock, pc, device, model, tval, loaded, before, overlap,
                   nseed, ndraw, last>>

\* between two calls of Read the host draws from the generator itself
HostRand ==
    /\ \A th \in Threads : ~Active(th)
    /\ ops < MaxOps
    /\ ops' = ops + 1
    /\ gen' = RandNext(gen)
    /\ hostDraw' = IF hostCtx \in {NoHost, Mixed} THEN NoDraw
                   ELSE [seed |-> hostCtx.seed, reads |-> hostCtx.reads,
                         t |-> hostCtx.t, value |-> RandOut(gen')]
    /\ hostCtx' = NoHost
    /\ prev' = NoCall
    /\ UNCHANGED <<clock, pc, device, model, tval, loaded, before, overlap,
                   nseed, ndraw, last>>

Next ==
    \/ \E th \in Threads, d \in Devices, m \in Models : Call(th, d, m)
    \/ \E th \in Threads : Seed(th)
    \/ \E th \in Threads : Load(th)
    \/ \E th \in Threads : Draw(th)
    \/ Tick
    \/ \E s \in UInts : HostSrand(s)
    \/ HostRand

Spec == Init /\ [][Next]_vars

\* every caller that has started a call keeps being scheduled
FairSpec == Spec /\ \A th \in Threads : WF_vars(Step(th))

PcValues == {"idle", "srand", "rand", "store"}

TypeOK ==
    /\ gen \in GenStates
    /\ clock \in Times
    /\ pc \in [Threads -> PcValues]
    /\ device \in [Threads -> Devices \cup {NoValue}]
    /\ model \in [Threads -> Models \cup {""}]
    /\ tval \in [Threads -> Times \cup {NoValue}]
    /\ loaded \in [Threads -> GenStates \cup {NoValue}]
    /\ ops \in 0..MaxOps

\* r records a call that returned
IsCall(r) == r.draws > 0

(* ------------------------------- C1 ------------------------------------ *)

\* C1: whatever the device, the model string, the interleaving of the calls
\* and the clock value, the value a Read call returns is an integer of
\* 0..RAND_MAX, and so an int.
C1_ResultInRange ==
    IsCall(last) =>
        /\ last.result \in 0..RAND_MAX
        /\ last.result \in (0 - INT_MAX - 1)..INT_MAX

\* a call that ran together with another one returned at the last clock value
C1_Witness ==
    /\ IsCall(last) /\ ~last.seq
    /\ last.t = MaxTime
    /\ last.result \in 0..RAND_MAX

(* ------------------------------- C2 ------------------------------------ *)

\* C2: Read has no error outcome.  A call is only ever at one of its
\* steps, the step that returns hands back an integer after one srand and
\* one rand, and under fair scheduling every call that has started returns.
C2_AlwaysReturns ==
    /\ [](\A th \in Threads : pc[th] \in PcValues)
    /\ [][\A th \in Threads :
            (Active(th) /\ ~Active(th)') =>
                /\ pc[th] = "store"
                /\ IsCall(last') /\ last'.result \in Int
                /\ last'.seeds = 1 /\ last'.draws = 1]_vars
    /\ \A th \in Threads : Active(th) ~> ~Active(th)

\* two calls have returned and every caller is idle again
C2_Witness ==
    /\ IsCall(last) /\ IsCall(prev)
    /\ \A th \in Threads : ~Active(th)

(* ------------------------------- C3 ------------------------------------ *)

\* C3: two calls that ran alone, started in the same generator state and
\* saw the same clock value return the same integer and leave the same
\* generator state, whatever their device and model arguments were.
C3_ArgumentsIgnored ==
    (/\ prev.seq /\ last.seq
     /\ prev.before = last.before
     /\ prev.t = last.t)
        => (last.result = prev.result /\ last.after = prev.after)

\* two such calls with different devices and different model strings
C3_Witness ==
    /\ prev.seq /\ last.seq
    /\ prev.before = last.before
    /\ prev.t = last.t
    /\ prev.dev # last.dev
    /\ prev.model # last.model
    /\ last.result = prev.result

(* ------------------------------- C4 ------------------------------------ *)

\* C4: two calls that return one after the other, each having run alone,
\* and that saw the same clock value return the same integer: the first
\* draw of the generator seeded with that clock value.
C4_SameTickSameValue ==
    (prev.seq /\ last.seq /\ prev.t = last.t)
        => (last.result = prev.result /\ last.result = FirstDraw(last.t))

\* two back-to-back calls within one clock tick
C4_Witness ==
    /\ prev.seq /\ last.seq
    /\ prev.t = last.t
    /\ prev.t = clock
    /\ last.before = prev.after

(* ------------------------------- C5 ------------------------------------ *)

\* C5: Read does not synchronise on the generator.  While one caller is
\* between its srand and the return of its rand, the srand and the rand of
\* any other caller that has reached them can run.
C5_NoSynchronisation ==
    \A a \in Threads : \A b \in Threads \ {a} :
        pc[a] \in {"rand", "store"} =>
            /\ pc[b] = "srand" => ENABLED Seed(b)
            /\ pc[b] = "rand" => ENABLED Load(b)
            /\ pc[b] = "store" => ENABLED Draw(b)

\* a caller returned the second draw of the sequence its clock value seeds,
\* not the first one it returns when it runs alone
C5_Witness ==
    /\ IsCall(last) /\ ~last.seq
    /\ last.seeds = 1 /\ last.draws = 1
    /\ last.result # FirstDraw(last.t)
    /\ last.result = SecondDraw(last.t)

(* ------------------------------- C6 ------------------------------------ *)

\* C6: a step of Read changes the generator and nothing else of the program:
\* not the clock, not the arguments of the call, not what the other callers
\* hold.  When a call that ran alone returns, the generator is in the state
\* that seeding with the clock value the call saw and drawing once gives,
\* whatever state the call found.
C6_OnlyTheGenerator ==
    [][\A th \in Threads :
         (Active(th) /\ pc'[th] # pc[th]) =>
            /\ clock' = clock
            /\ \A o \in Threads \ {th} :
                  /\ pc'[o] = pc[o] /\ tval'[o] = tval[o]
                  /\ device'[o] = device[o] /\ model'[o] = model[o]
            /\ Active(th)' => (device'[th] = device[th]
                                /\ model'[th] = model[th])
            /\ (~Active(th)' /\ last'.seq) =>
                  /\ last'.dev = device[th] /\ last'.model = model[th]
                  /\ last'.after = gen'
                  /\ gen' = (Srand(last'.before, ToUnsigned(last'.t)) * Mult
                                + Inc) % GenMod]_vars

\* a call that ran alone found the generator in another state than the
\* process starts with and left it in a third one
C6_Witness ==
    /\ last.seq
    /\ last.before # InitialGen
    /\ last.after # last.before
    /\ gen = last.after

(* ------------------------------- C7 ------------------------------------ *)

\* C7: within a call the seed step precedes the draw step.  A call that has
\* reached rand has read the clock and seeded exactly once, a call never
\* seeds or draws twice, and a call that returned made one srand and one
\* rand.
C7_SeedBeforeDraw ==
    /\ \A th \in Threads :
          /\ ndraw[th] <= nseed[th] /\ nseed[th] <= 1
          /\ pc[th] = "srand" =>
                (nseed[th] = 0 /\ ndraw[th] = 0 /\ tval[th] \in Times)
          /\ pc[th] \in {"rand", "store"} =>
                (nseed[th] = 1 /\ ndraw[th] = 0 /\ tval[th] \in Times)
    /\ IsCall(last) => (last.seeds = 1 /\ last.draws = 1)

\* one call has returned and another one has seeded and not yet drawn
C7_Witness ==
    /\ IsCall(last) /\ last.seeds = 1 /\ last.draws = 1
    /\ \E th \in Threads : pc[th] = "rand" /\ nseed[th] = 1 /\ ndraw[th] = 0

(* ------------------------------- C8 ------------------------------------ *)

\* C8: the value a call that ran alone returns does not depend on what was
\* done with the generator before: seeding any generator state with the
\* clock value the call saw and drawing once gives the value it returned,
\* and two such calls that saw the same clock value agree.
C8_HistoryIndependent ==
    /\ last.seq =>
          \A g \in GenStates :
              RandOut(RandNext(Srand(g, ToUnsigned(last.t)))) = last.result
    /\ (prev.seq /\ last.seq /\ prev.t = last.t /\ prev.before # last.before)
          => last.result = prev.result

\* two calls that saw the same clock value and found different generator
\* states, the second one after a seed of the host
C8_Witness ==
    /\ prev.seq /\ last.seq
    /\ prev.t = last.t
    /\ prev.before # last.before
    /\ last.before # prev.after
    /\ last.result = prev.result

(* ------------------------------- C9 ------------------------------------ *)

\* the first value of the sequence the host seed S starts
HostFirst(S) == RandOut(RandNext(Srand(0, S)))

\* C9 as stated: after the host seeded with S and one Read call ran, the
\* next draw of the host is the second value of the sequence seeded with
\* the clock value Read saw, and it is not the first value of the sequence
\* seeded with S.
C9_AsStated ==
    hostDraw.reads = 1 =>
        /\ hostDraw.value = SecondDraw(hostDraw.t)
        /\ hostDraw.value # HostFirst(hostDraw.seed)

\* C9 (amended): after the host seeded with S and one Read call ran, the
\* next draw of the host is the second value of the sequence seeded with
\* the clock value Read saw, whatever S was; it is the first value of the
\* sequence seeded with S only where the two values coincide.
C9_SeedDestroyed ==
    hostDraw.reads = 1 =>
        /\ hostDraw.value = SecondDraw(hostDraw.t)
        /\ \A S \in UInts :
              hostDraw.value =
                  RandOut(RandNext(RandNext(
                      Srand(Srand(0, S), ToUnsigned(hostDraw.t)))))
        /\ (hostDraw.value = HostFirst(hostDraw.seed))
              <=> (SecondDraw(hostDraw.t) = HostFirst(hostDraw.seed))

\* the host seeded, one Read call ran, and the host drew another value than
\* the first one of the sequence it had seeded
C9_Witness ==
    /\ hostDraw.reads = 1
    /\ hostDraw.value = SecondDraw(hostDraw.t)
    /\ hostDraw.value # HostFirst(hostDraw.seed)

====
